---- MODULE Spec2Model ----
(***************************************************************************)
(* Health Insights AI, frontend.  A model of the HealthSummary component   *)
(* (frontend/components/HealthSummary.tsx): its React state, fetchSummary, *)
(* and the scorer getHealthScore with the rating shown next to the score,  *)
(* and of the request body built by WearableData.handleSubmit.             *)
(*                                                                         *)
(* JavaScript values are tagged records: [t |-> "undefined"],              *)
(* [t |-> "null"], [t |-> "NaN"], [t |-> "num", v |-> n], and objects      *)
(* [t |-> "obj", ...fields].  Numbers of the sleep metric are kept in      *)
(* tenths of an hour (6.5 h is 65), because parseFloat admits fractions;   *)
(* all other numbers are integers.                                         *)
(***************************************************************************)
EXTENDS Integers, Sequences, FiniteSets, TLC

VARIABLES summary, recentReports, isLoading, healthScore, rating,
          fetchPc, wearableResponse, view, renderError,
          rawText, extraction,
          text, manualIsLoading, results, error, manualReq,
          activeTab,
          showAddForm, formData, wearableReq, wdSummary, wdLoading, wdFetchPc,
          uploading, uploadReq,
          serverWearable, serverReports,
          chatSessions, chatCurrent, messages, inputMessage, chatIsLoading,
          loadingHistory, chatSessionsPc, lastSessionReq, chatLoadReqs,
          chatCreateReq, chatSendReqs, clock,
          sessions, currentSession, loadingSessions, pageLoadReqs, pageDeleteReqs,
          pageCreateReq,
          serverSessions, serverMessages, nextSessionId

\* The HealthSummary component.
hsVars == <<summary, recentReports, isLoading, healthScore, rating,
            fetchPc, wearableResponse, view, renderError>>

\* The marker extractor: its argument and what it returned.
exVars == <<rawText, extraction>>

\* ManualEntry: its state and its request in flight.
manualVars == <<text, manualIsLoading, results, error, manualReq>>

\* WearableData: its state, its POST in flight and its own summary fetch.
wdVars == <<showAddForm, formData, wearableReq, wdSummary, wdLoading, wdFetchPc>>

\* FileUpload: its state and its POST in flight.
upVars == <<uploading, uploadReq>>

\* The backend's stores: the user's wearable summary and reports, newest first.
serverVars == <<serverWearable, serverReports>>

\* Everything on the dashboard page besides HealthSummary.
uiVars == <<manualVars, wdVars, upVars, serverVars, activeTab>>

\* Chat: its state, its requests in flight and the clock its message ids
\* are taken from.
chatVars == <<chatSessions, chatCurrent, messages, inputMessage, chatIsLoading,
              loadingHistory, chatSessionsPc, lastSessionReq, chatLoadReqs,
              chatCreateReq, chatSendReqs, clock>>

\* DashboardPage: the sidebar's sessions and its requests in flight.
pageVars == <<sessions, currentSession, loadingSessions, pageLoadReqs, pageDeleteReqs,
              pageCreateReq>>

\* The backend's chat sessions and their messages.
serverChatVars == <<serverSessions, serverMessages, nextSessionId>>

sessVars == <<chatVars, pageVars, serverChatVars>>

vars == <<hsVars, exVars, uiVars, sessVars>>

\* Longest list of reports the backend answers with / the scorer is applied to.
MaxReports == 4

\* Longest text, in tokens, given to the extractor.
MaxTextLen == 4

\* Most reports the backend stores.
MaxStored == 2

\* Most chat sessions ever created, and most messages ever sent.
MaxSessions == 2
MaxSends == 2

----------------------------------------------------------------------------
(* JavaScript values *)

Undefined == [t |-> "undefined"]
Null == [t |-> "null"]
NaN == [t |-> "NaN"]
Num(n) == [t |-> "num", v |-> n]
Bool(b) == [t |-> "bool", v |-> b]

\* ToBoolean, as applied by `&&`, `||` and `if`.
Truthy(x) ==
    CASE x.t = "undefined" -> FALSE
      [] x.t = "null" -> FALSE
      [] x.t = "NaN" -> FALSE
      [] x.t = "num" -> x.v # 0
      [] x.t = "bool" -> x.v
      [] OTHER -> TRUE

\* Reading a property of x raises a TypeError.
ReadThrows(x) == x.t \in {"undefined", "null"}

\* A metric record of the wearable summary, {latest, average}.
Metric(latest, average) == [t |-> "obj", latest |-> latest, average |-> average]

\* A report as the scorer reads it: only flagged_markers, an object whose keys
\* are marker names, or absent.
Report(flagged) == [flagged_markers |-> flagged]
Flagged(keys) == [t |-> "obj", keys |-> keys]

\* Object.keys(o).length
ObjectKeysLength(o) == Cardinality(o.keys)

\* Math.max(a, b), and two wrong floors.
Max_NoFloor(a, b) == b
Max_Abs(a, b) == IF b < a THEN a - b ELSE b
Max(a, b) == IF a >= b THEN a ELSE b

----------------------------------------------------------------------------
(* WearableData.handleSubmit: the request body built from the form *)

\* What a type="number" input can hold: blank or a decimal literal.
FormStrings == {"", "0", "59", "5000", "8500", "6.5", "7"}

\* parseInt(str): the leading integer, NaN for a blank string.
ParseInt(str) ==
    CASE str = "" -> NaN
      [] str = "0" -> Num(0)
      [] str = "59" -> Num(59)
      [] str = "5000" -> Num(5000)
      [] str = "8500" -> Num(8500)
      [] str = "6.5" -> Num(6)
      [] str = "7" -> Num(7)

\* parseFloat(str), in tenths.
ParseFloat(str) ==
    CASE str = "" -> NaN
      [] str = "0" -> Num(0)
      [] str = "59" -> Num(590)
      [] str = "5000" -> Num(50000)
      [] str = "8500" -> Num(85000)
      [] str = "6.5" -> Num(65)
      [] str = "7" -> Num(70)

\* x || 0
OrZero(x) == IF Truthy(x) THEN x ELSE Num(0)

handleSubmitBody(form) ==
    [steps |-> OrZero(ParseInt(form.steps)),
     heart_rate |-> OrZero(ParseInt(form.heart_rate)),
     sleep_hours |-> OrZero(ParseFloat(form.sleep))]

\* The form as reset after a submit, and as first shown: every field blank.
BlankForm == [steps |-> "", heart_rate |-> "", sleep |-> ""]

----------------------------------------------------------------------------
(* The scorer *)

\* summary.m && summary.m.latest && summary.m.latest > 0
Present_ZeroIsData(m) == Truthy(m) /\ m.latest.t = "num" /\ m.latest.v >= 0
Present(m) == Truthy(m) /\ Truthy(m.latest) /\ m.latest.v > 0

\* let score = 100; let factors = [];
StartAcc_FromZero == [score |-> 0, factors |-> <<>>]
StartAcc == [score |-> 100, factors |-> <<>>]

StepsRule_Lte(s, acc) ==
    IF Present(s.steps) /\ s.steps.latest.v <= 8000
    THEN [score |-> acc.score - 10,
          factors |-> Append(acc.factors, "Low step count")]
    ELSE acc
StepsRule(s, acc) ==
    IF Present(s.steps)
    THEN IF s.steps.latest.v < 8000
         THEN [score |-> acc.score - 10,
               factors |-> Append(acc.factors, "Low step count")]
         ELSE acc
    ELSE acc

HeartRateRule_Lte(s, acc) ==
    IF Present(s.heart_rate)
       /\ (s.heart_rate.latest.v <= 60 \/ s.heart_rate.latest.v >= 100)
    THEN [score |-> acc.score - 15,
          factors |-> Append(acc.factors, "Heart rate outside normal range")]
    ELSE acc
HeartRateRule(s, acc) ==
    IF Present(s.heart_rate)
    THEN IF s.heart_rate.latest.v < 60 \/ s.heart_rate.latest.v > 100
         THEN [score |-> acc.score - 15,
               factors |-> Append(acc.factors, "Heart rate outside normal range")]
         ELSE acc
    ELSE acc

\* latest < 7 (hours); sleep numbers are in tenths of an hour.
SleepRule_Lte(s, acc) ==
    IF Present(s.sleep) /\ s.sleep.latest.v <= 70
    THEN [score |-> acc.score - 15,
          factors |-> Append(acc.factors, "Insufficient sleep")]
    ELSE acc
SleepRule(s, acc) ==
    IF Present(s.sleep)
    THEN IF s.sleep.latest.v < 70
         THEN [score |-> acc.score - 15,
               factors |-> Append(acc.factors, "Insufficient sleep")]
         ELSE acc
    ELSE acc

\* `${n} abnormal lab markers`
AbnormalFactor(n) == ToString(n) \o " abnormal lab markers"

\* The body of the forEach callback.
ReportRule_PerMarker(report, acc) ==
    IF Truthy(report.flagged_markers) /\ ObjectKeysLength(report.flagged_markers) > 0
    THEN [score |-> acc.score - 20 * ObjectKeysLength(report.flagged_markers),
          factors |-> Append(acc.factors,
                             AbnormalFactor(ObjectKeysLength(report.flagged_markers)))]
    ELSE acc
ReportRule(report, acc) ==
    IF Truthy(report.flagged_markers) /\ ObjectKeysLength(report.flagged_markers) > 0
    THEN [score |-> acc.score - 20,
          factors |-> Append(acc.factors,
                             AbnormalFactor(ObjectKeysLength(report.flagged_markers)))]
    ELSE acc

\* recentReports.forEach(...), in list order.
RECURSIVE ForEachReport(_, _)
ForEachReport(reports, acc) ==
    IF reports = <<>> THEN acc
    ELSE ForEachReport(Tail(reports), ReportRule(Head(reports), acc))

getHealthScore_ReportsFirst(s, reports) ==
    LET a1 == ForEachReport(reports, StartAcc)
        a2 == StepsRule(s, a1)
        a3 == HeartRateRule(s, a2)
        a4 == SleepRule(s, a3)
    IN  [score |-> Max(0, a4.score), factors |-> a4.factors]
getHealthScore(s, reports) ==
    LET a1 == StepsRule(s, StartAcc)
        a2 == HeartRateRule(s, a1)
        a3 == SleepRule(s, a2)
        a4 == ForEachReport(reports, a3)
    IN  [score |-> Max(0, a4.score), factors |-> a4.factors]

\* The text under the score.
Rating_Gt(score) ==
    IF score > 80 THEN "Excellent"
    ELSE IF score > 60 THEN "Good"
    ELSE IF score > 40 THEN "Fair"
    ELSE "Needs Attention"
Rating(score) ==
    IF score >= 80 THEN "Excellent"
    ELSE IF score >= 60 THEN "Good"
    ELSE IF score >= 40 THEN "Fair"
    ELSE "Needs Attention"

\* Whether evaluating the presence check of a metric raises: .latest is read
\* only behind the guard `summary.m &&`.
PresentThrows_NoGuard(m) == ReadThrows(m)
PresentThrows(m) == Truthy(m) /\ ReadThrows(m)

\* Whether the forEach callback raises: Object.keys is called only behind the
\* guard `report.flagged_markers &&`.
ReportRuleThrows(report) ==
    Truthy(report.flagged_markers) /\ ReadThrows(report.flagged_markers)

getHealthScoreThrows(s, reports) ==
    \/ PresentThrows(s.steps)
    \/ PresentThrows(s.heart_rate)
    \/ PresentThrows(s.sleep)
    \/ \E i \in 1..Len(reports) : ReportRuleThrows(reports[i])

----------------------------------------------------------------------------
(* What HealthSummary renders *)

\* The value of `summary.m && summary.m.latest && summary.m.latest > 0`: the
\* first falsy operand, or the comparison.
PresentValue_AnyLatest(m) ==
    IF ~Truthy(m) THEN m ELSE Bool(m.latest.t # "undefined" /\ m.latest.t # "null")
PresentValue(m) ==
    IF ~Truthy(m) THEN m
    ELSE IF ~Truthy(m.latest) THEN m.latest
    ELSE Bool(m.latest.v > 0)

\* (steps chain) || (heart_rate chain) || (sleep chain): the first truthy
\* operand, or the last.
hasWearableData(s) ==
    IF Truthy(PresentValue(s.steps)) THEN PresentValue(s.steps)
    ELSE IF Truthy(PresentValue(s.heart_rate)) THEN PresentValue(s.heart_rate)
    ELSE PresentValue(s.sleep)

hasReports_MoreThanOne(reports) == Len(reports) > 1
hasReports(reports) == Len(reports) > 0

\* What React renders for the JSX child {v && <element/>}: the element when v
\* is truthy; the text of v when v is a falsy number; nothing for false, null
\* and undefined.
JsxAnd(v) ==
    IF Truthy(v) THEN "element"
    ELSE IF v.t = "num" THEN "0"
    ELSE IF v.t = "NaN" THEN "NaN"
    ELSE "nothing"

\* The children of the component's root <div>, and of the quick-stats grid.
RenderView(s, reports, hs) ==
    [scoreCard |-> JsxAnd(hasWearableData(s)),
     improvement |-> JsxAnd(Bool(hasReports(reports) /\ Len(hs.factors) > 0)),
     quickStats |-> JsxAnd(hasWearableData(s)),
     stepsTile |-> IF Truthy(hasWearableData(s))
                   THEN JsxAnd(PresentValue(s.steps)) ELSE "nothing",
     heartRateTile |-> IF Truthy(hasWearableData(s))
                       THEN JsxAnd(PresentValue(s.heart_rate)) ELSE "nothing",
     sleepTile |-> IF Truthy(hasWearableData(s))
                   THEN JsxAnd(PresentValue(s.sleep)) ELSE "nothing",
     reportsPanel |-> JsxAnd(Bool(hasReports(reports))),
     emptyState |-> JsxAnd(Bool(~Truthy(hasWearableData(s)) /\ ~hasReports(reports)))]

\* While loading only the skeleton is rendered.
NoView ==
    [scoreCard |-> "nothing", improvement |-> "nothing", quickStats |-> "nothing",
     stepsTile |-> "nothing", heartRateTile |-> "nothing", sleepTile |-> "nothing",
     reportsPanel |-> "nothing", emptyState |-> "nothing"]

----------------------------------------------------------------------------
(* The marker extractor (backend; modelled from its specification).        *)
(* A text is a sequence of tokens: words, unsigned numeric literals and    *)
(* "Normal Range: X-Y" annotations.                                        *)

Word(w) == [k |-> "word", w |-> w]
Number(v) == [k |-> "num", v |-> v]
RangeNote == [k |-> "range", low |-> 10, high |-> 30]

Str(tokens) == [t |-> "str", tokens |-> tokens]

\* The uppercased working copy used for name matching.
UpperWord(w) ==
    CASE w = "ferritin" -> "FERRITIN"
      [] w = "fine" -> "FINE"
      [] OTHER -> w

Upper(tokens) ==
    [i \in 1..Len(tokens) |->
        IF tokens[i].k = "word" THEN Word(UpperWord(tokens[i].w)) ELSE tokens[i]]

\* The static table of marker definitions.
MarkerTable ==
    << [canonical_name |-> "FERRITIN",
        aliases |-> {<<"FERRITIN">>, <<"SERUM", "FERRITIN">>},
        unit |-> "ng/mL", low |-> 38, high |-> 380,
        recommendation_low |-> "Consider iron-rich foods",
        recommendation_high |-> "Discuss iron overload with your doctor"],
       [canonical_name |-> "SERUM IRON",
        aliases |-> {<<"SERUM">>},
        unit |-> "ug/dL", low |-> 60, high |-> 170,
        recommendation_low |-> "Consider an iron supplement",
        recommendation_high |-> "Reduce iron intake"] >>

\* Number of tokens after a name in which its numeric literal is looked for.
LookAhead == 2

MaxAliasLen == 2

\* The aliases of n words, in table order.
RECURSIVE AliasesOfLen(_, _)
AliasesOfLen(n, d) ==
    IF d > Len(MarkerTable) THEN <<>>
    ELSE (IF \E a \in MarkerTable[d].aliases : Len(a) = n
          THEN <<[words |-> CHOOSE a \in MarkerTable[d].aliases : Len(a) = n, def |-> d]>>
          ELSE <<>>)
         \o AliasesOfLen(n, d + 1)

\* All aliases, longest first.
RECURSIVE AliasesFromLen(_)
AliasesFromLen(n) ==
    IF n = 0 THEN <<>> ELSE AliasesOfLen(n, 1) \o AliasesFromLen(n - 1)

SortedAliases == AliasesFromLen(MaxAliasLen)

\* The alias stands at position i of the uppercased text.
AliasAt(up, i, words) ==
    /\ i + Len(words) - 1 <= Len(up)
    /\ \A n \in 1..Len(words) : up[i + n - 1] = Word(words[n])

\* Position of the first numeric literal among tokens from..to, or 0.
FirstNumber(tokens, from, to) ==
    LET hits == {j \in from..to : j <= Len(tokens) /\ tokens[j].k = "num"}
    IN  IF hits = {} THEN 0 ELSE CHOOSE j \in hits : \A h \in hits : j <= h

\* One attempt: alias a at position i.  A match consumes the span from the
\* name to its number, and only if no token of the span is consumed already.
TryMatch_NoExclusivity(tokens, up, a, i, acc) ==
    LET k == Len(a.words)
        j == FirstNumber(tokens, i + k, i + k + LookAhead - 1)
    IN  IF AliasAt(up, i, a.words) /\ j # 0
        THEN [consumed |-> acc.consumed \cup (i..j),
              matches |-> Append(acc.matches,
                                 [start |-> i, end |-> j, def |-> a.def,
                                  value |-> tokens[j].v])]
        ELSE acc
TryMatch(tokens, up, a, i, acc) ==
    LET k == Len(a.words)
        j == FirstNumber(tokens, i + k, i + k + LookAhead - 1)
    IN  IF AliasAt(up, i, a.words) /\ j # 0 /\ (i..j) \cap acc.consumed = {}
        THEN [consumed |-> acc.consumed \cup (i..j),
              matches |-> Append(acc.matches,
                                 [start |-> i, end |-> j, def |-> a.def,
                                  value |-> tokens[j].v])]
        ELSE acc

RECURSIVE ScanAlias(_, _, _, _, _)
ScanAlias(tokens, up, a, i, acc) ==
    IF i > Len(tokens) THEN acc
    ELSE ScanAlias(tokens, up, a, i + 1, TryMatch(tokens, up, a, i, acc))

RECURSIVE ScanAliases(_, _, _, _)
ScanAliases(tokens, up, aliases, acc) ==
    IF aliases = <<>> THEN acc
    ELSE ScanAliases(tokens, up, Tail(aliases),
                     ScanAlias(tokens, up, Head(aliases), 1, acc))

\* Insertion of a match into a list ordered by start offset.
RECURSIVE InsertByStart(_, _)
InsertByStart(m, sorted) ==
    IF sorted = <<>> THEN <<m>>
    ELSE IF m.start < Head(sorted).start THEN <<m>> \o sorted
    ELSE <<Head(sorted)>> \o InsertByStart(m, Tail(sorted))

RECURSIVE SortRec(_)
SortRec(matches) ==
    IF matches = <<>> THEN <<>>
    ELSE InsertByStart(Head(matches), SortRec(Tail(matches)))

SortByStart_Unsorted(matches) == matches
SortByStart(matches) == SortRec(matches)

\* Classification against the bounds of the definition table.
Classify_BoundsFlagged(def, value) ==
    IF value <= def.low THEN "low" ELSE IF value >= def.high THEN "high" ELSE "normal"
Classify(def, value) ==
    IF value < def.low THEN "low" ELSE IF value > def.high THEN "high" ELSE "normal"

Recommendation(def, status) ==
    CASE status = "low" -> def.recommendation_low
      [] status = "high" -> def.recommendation_high
      [] OTHER -> ""

ToMarker(m) ==
    LET def == MarkerTable[m.def]
        status == Classify(def, m.value)
    IN  [name |-> def.canonical_name,
         value |-> m.value,
         unit |-> def.unit,
         normalRange |-> ToString(def.low) \o "-" \o ToString(def.high),
         status |-> status,
         recommendation |-> Recommendation(def, status)]

InvalidInputError == [t |-> "InvalidInputError"]

\* extract(raw_text); spans keeps, for each marker, the span it was matched in.
extract(raw) ==
    IF raw.t # "str" THEN InvalidInputError
    ELSE LET tokens == raw.tokens
             found == ScanAliases(tokens, Upper(tokens), SortedAliases,
                                  [consumed |-> {}, matches |-> <<>>])
             ordered == SortByStart(found.matches)
         IN  [t |-> "ok",
              extractedText |-> tokens,
              textLength |-> Len(tokens),
              markers |-> [n \in 1..Len(ordered) |-> ToMarker(ordered[n])],
              markersFound |-> Len(ordered),
              spans |-> [n \in 1..Len(ordered) |->
                            [start |-> ordered[n].start, end |-> ordered[n].end]]]

NoExtraction == [t |-> "none"]

----------------------------------------------------------------------------
(* Inputs *)

EmptySummary == [steps |-> Undefined, heart_rate |-> Undefined, sleep |-> Undefined]

StepsInputs ==
    { Undefined, Metric(Null, Null), Metric(handleSubmitBody(BlankForm).steps, Num(9000)),
      Metric(Num(-1), Num(0)), Metric(Num(5000), Num(5000)), Metric(Num(7999), Num(9000)),
      Metric(Num(8000), Num(6000)) }

HeartRateInputs ==
    { Undefined, Metric(handleSubmitBody(BlankForm).heart_rate, Num(120)),
      Metric(Num(59), Num(59)),
      Metric(Num(60), Num(60)), Metric(Num(72), Num(72)), Metric(Num(100), Num(80)),
      Metric(Num(101), Num(90)) }

SleepInputs ==
    { Undefined, Metric(Undefined, Undefined),
      Metric(handleSubmitBody(BlankForm).sleep_hours, Num(50)),
      Metric(Num(65), Num(65)), Metric(Num(70), Num(75)), Metric(Num(80), Num(80)) }

SummaryInputs ==
    { [steps |-> a, heart_rate |-> b, sleep |-> c] :
        a \in StepsInputs, b \in HeartRateInputs, c \in SleepInputs }

ReportInputs ==
    { Report(Undefined), Report(Flagged({})), Report(Flagged({"FERRITIN"})),
      Report(Flagged({"FERRITIN", "GLUCOSE"})) }

SeqsUpTo(S, n) == UNION { [1..k -> S] : k \in 0..n }

ReportListInputs == SeqsUpTo(ReportInputs, MaxReports)

TokenInputs ==
    { Word("SERUM"), Word("FERRITIN"), Word("ferritin"), Word("fine"),
      Number(22), Number(38), Number(380), Number(400), RangeNote }

TextInputs == { Str(tokens) : tokens \in SeqsUpTo(TokenInputs, MaxTextLen) }

\* Every string, and a missing argument.
RawTextInputs == TextInputs \cup {Null}

----------------------------------------------------------------------------
(* The dashboard page as first shown, with nothing stored yet *)

NoRequest == [kind |-> "none"]

UiInit ==
    /\ text = <<>>
    /\ manualIsLoading = FALSE
    /\ results = Null
    /\ error = ""
    /\ manualReq = NoRequest
    /\ activeTab = "chat"
    /\ showAddForm = FALSE
    /\ formData = BlankForm
    /\ wearableReq = NoRequest
    /\ wdSummary = Null
    /\ wdLoading = TRUE
    /\ wdFetchPc = "idle"
    /\ uploading = FALSE
    /\ uploadReq = NoRequest
    /\ serverWearable = EmptySummary
    /\ serverReports = <<>>

\* No chat session exists yet; Chat and the sidebar are loading their lists.
SessInit ==
    /\ chatSessions = <<>>
    /\ chatCurrent = Null
    /\ messages = <<>>
    /\ inputMessage = <<>>
    /\ chatIsLoading = FALSE
    /\ loadingHistory = TRUE
    /\ chatSessionsPc = "loading"
    /\ lastSessionReq = NoRequest
    /\ chatLoadReqs = {}
    /\ chatCreateReq = FALSE
    /\ chatSendReqs = {}
    /\ clock = 0
    /\ sessions = <<>>
    /\ currentSession = Null
    /\ loadingSessions = TRUE
    /\ pageLoadReqs = {}
    /\ pageDeleteReqs = {}
    /\ pageCreateReq = FALSE
    /\ serverSessions = <<>>
    /\ serverMessages = [id \in 1..MaxSessions |-> <<>>]
    /\ nextSessionId = 1

----------------------------------------------------------------------------
(* The component *)

NotRendered == [score |-> -1, factors |-> <<>>]

\* Array.prototype.slice(0, n)
Slice0(s, n) == SubSeq(s, 1, IF Len(s) < n THEN Len(s) ELSE n)

Init ==
    /\ summary = EmptySummary
    /\ recentReports = <<>>
    /\ isLoading = TRUE
    /\ healthScore = NotRendered
    /\ rating = ""
    /\ fetchPc = "wearable"
    /\ wearableResponse = Undefined
    /\ view = NoView
    /\ renderError = FALSE
    /\ rawText = Str(<<>>)
    /\ extraction = NoExtraction
    /\ UiInit
    /\ SessInit

\* The render that follows the state updates of a finished fetchSummary.
Render(s, reports) ==
    IF getHealthScoreThrows(s, reports)
    THEN /\ renderError' = TRUE
         /\ UNCHANGED <<healthScore, rating, view>>
    ELSE /\ healthScore' = getHealthScore(s, reports)
         /\ rating' = Rating(getHealthScore(s, reports).score)
         /\ view' = RenderView(s, reports, getHealthScore(s, reports))
         /\ UNCHANGED renderError

WearableGetOkWith(w) ==
    /\ fetchPc = "wearable"
    /\ wearableResponse' = w
    /\ fetchPc' = "reports"
    /\ UNCHANGED <<summary, recentReports, isLoading, healthScore, rating, view,
                   renderError>>
    /\ UNCHANGED <<exVars, uiVars, sessVars>>

WearableGetOk == \E w \in SummaryInputs : WearableGetOkWith(w)

WearableGetFail ==
    /\ fetchPc = "wearable"
    /\ fetchPc' = "failed"
    /\ isLoading' = FALSE
    /\ Render(summary, recentReports)
    /\ UNCHANGED <<summary, recentReports, wearableResponse>>
    /\ UNCHANGED <<exVars, uiVars, sessVars>>

ReportsGetOkWith(r) ==
    /\ fetchPc = "reports"
    /\ summary' = wearableResponse
    /\ recentReports' = Slice0(r, 3)
    /\ Render(wearableResponse, Slice0(r, 3))
    /\ isLoading' = FALSE
    /\ fetchPc' = "done"
    /\ wearableResponse' = Undefined
    /\ UNCHANGED <<exVars, uiVars, sessVars>>

ReportsGetOk == \E r \in ReportListInputs : ReportsGetOkWith(r)

\* A variant that has called setSummary as soon as the first answer came.
ReportsGetFail_SummarySet ==
    /\ fetchPc = "reports"
    /\ fetchPc' = "failed"
    /\ isLoading' = FALSE
    /\ wearableResponse' = Undefined
    /\ summary' = wearableResponse
    /\ Render(wearableResponse, recentReports)
    /\ UNCHANGED recentReports
    /\ UNCHANGED <<exVars, uiVars, sessVars>>

ReportsGetFail ==
    /\ fetchPc = "reports"
    /\ fetchPc' = "failed"
    /\ isLoading' = FALSE
    /\ wearableResponse' = Undefined
    /\ Render(summary, recentReports)
    /\ UNCHANGED <<summary, recentReports>>
    /\ UNCHANGED <<exVars, uiVars, sessVars>>

Next == WearableGetOk \/ WearableGetFail \/ ReportsGetOk \/ ReportsGetFail

Spec == Init /\ [][Next]_vars

----------------------------------------------------------------------------
(* The backend's report endpoints (modelled from the specification) *)

\* POST /reports/debug-text: the extraction of the text, as JSON.
DebugText(tokens) ==
    LET r == extract(Str(tokens))
    IN  [t |-> "obj",
         extractedText |-> tokens,
         markers |-> r.markers,
         textLength |-> r.textLength,
         markersFound |-> r.markersFound]

\* POST /reports/upload: the report stored for a text; its flagged markers
\* are the markers outside their normal range.
StoredReport(tokens) ==
    LET r == extract(Str(tokens))
    IN  Report(Flagged({ r.markers[n].name :
                           n \in {o \in 1..Len(r.markers) : r.markers[o].status # "normal"} }))

\* GET /wearable/summary after POST /wearable/add of one entry.
StoredSummary(body) ==
    [steps |-> Metric(body.steps, body.steps),
     heart_rate |-> Metric(body.heart_rate, body.heart_rate),
     sleep |-> Metric(body.sleep_hours, body.sleep_hours)]

----------------------------------------------------------------------------
(* The dashboard's tabs: only the active tab's component is mounted *)

Tabs == {"chat", "upload", "manual", "wearable"}

\* onClick={() => setActiveTab(tab.id)}: the component of the tab that is
\* left is unmounted and the one of the new tab is mounted in its initial
\* state; WearableData fetches its summary on mount.  Tabs are switched
\* while no POST is in flight, so every answer finds its component mounted.
SetActiveTab(tab) ==
    /\ manualReq = NoRequest
    /\ wearableReq = NoRequest
    /\ uploadReq = NoRequest
    /\ activeTab' = tab
    /\ IF tab = activeTab
       THEN UNCHANGED <<manualVars, wdVars, upVars>>
       ELSE /\ text' = <<>>
            /\ manualIsLoading' = FALSE
            /\ results' = Null
            /\ error' = ""
            /\ UNCHANGED manualReq
            /\ showAddForm' = FALSE
            /\ formData' = BlankForm
            /\ UNCHANGED wearableReq
            /\ wdSummary' = Null
            /\ wdLoading' = TRUE
            /\ wdFetchPc' = IF tab = "wearable" THEN "fetching" ELSE "idle"
            /\ uploading' = FALSE
            /\ UNCHANGED uploadReq
    /\ UNCHANGED <<sessVars, hsVars, exVars, serverVars>>

----------------------------------------------------------------------------
(* ManualEntry *)

Space == [k |-> "space"]

\* text.trim()
RECURSIVE TrimStart(_)
TrimStart(tokens) ==
    IF tokens # <<>> /\ Head(tokens) = Space THEN TrimStart(Tail(tokens)) ELSE tokens

RECURSIVE TrimEnd(_)
TrimEnd(tokens) ==
    IF tokens # <<>> /\ tokens[Len(tokens)] = Space
    THEN TrimEnd(SubSeq(tokens, 1, Len(tokens) - 1)) ELSE tokens

Trim(tokens) == TrimEnd(TrimStart(tokens))

\* What the user types or pastes into the textarea.
ManualTexts ==
    { <<>>, <<Space>>, <<Word("fine")>>,
      <<Word("FERRITIN"), Number(22)>>,
      <<Space, Word("FERRITIN"), Number(38)>> }

\* !results?.markers || results.markers.length === 0
NoMarkers_NullOnly(r) == r = Null
NoMarkers(r) == r = Null \/ Len(r.markers) = 0

\* {results?.markers && results.markers.length > 0 && <button ...>}
SaveButtonOffered == results # Null /\ Len(results.markers) > 0
SaveButtonDisabled == manualIsLoading
TestButtonDisabled == manualIsLoading \/ Trim(text) = <<>>

\* onChange={(e) => setText(e.target.value)}
ChangeText(value) ==
    /\ activeTab = "manual"
    /\ text' = value
    /\ UNCHANGED <<manualIsLoading, results, error, manualReq>>
    /\ UNCHANGED <<sessVars, hsVars, exVars, wdVars, upVars, serverVars, activeTab>>

\* handleTestText, up to its await.
HandleTestText ==
    /\ activeTab = "manual"
    /\ manualReq = NoRequest
    /\ IF Trim(text) = <<>>
       THEN /\ error' = "Please enter some text to test"
            /\ UNCHANGED <<manualIsLoading, results, manualReq>>
       ELSE /\ manualIsLoading' = TRUE
            /\ error' = ""
            /\ results' = Null
            /\ manualReq' = [kind |-> "test", text |-> Trim(text)]
    /\ UNCHANGED text
    /\ UNCHANGED <<sessVars, hsVars, exVars, wdVars, upVars, serverVars, activeTab>>

\* The answer of POST /reports/debug-text: setResults(response.data), finally.
TestOk ==
    /\ manualReq.kind = "test"
    /\ manualReq' = NoRequest
    /\ results' = DebugText(manualReq.text)
    /\ manualIsLoading' = FALSE
    /\ UNCHANGED <<text, error>>
    /\ UNCHANGED <<sessVars, hsVars, exVars, wdVars, upVars, serverVars, activeTab>>

\* catch, finally.
TestFail ==
    /\ manualReq.kind = "test"
    /\ manualReq' = NoRequest
    /\ error' = "Failed to process text"
    /\ manualIsLoading' = FALSE
    /\ UNCHANGED <<text, results>>
    /\ UNCHANGED <<sessVars, hsVars, exVars, wdVars, upVars, serverVars, activeTab>>

\* handleSaveToReports, up to its await.
HandleSaveToReports ==
    /\ activeTab = "manual"
    /\ manualReq = NoRequest
    /\ IF NoMarkers(results)
       THEN /\ error' = "No markers detected to save"
            /\ UNCHANGED <<manualIsLoading, manualReq>>
       ELSE /\ manualIsLoading' = TRUE
            /\ error' = ""
            /\ manualReq' = [kind |-> "save", text |-> text]
    /\ UNCHANGED <<text, results>>
    /\ UNCHANGED <<sessVars, hsVars, exVars, wdVars, upVars, serverVars, activeTab>>

\* The answer of POST /reports/upload: the report is stored; alert,
\* setText(''), setResults(null), finally.
SaveOk ==
    /\ manualReq.kind = "save"
    /\ Len(serverReports) < MaxStored
    /\ serverReports' = <<StoredReport(manualReq.text)>> \o serverReports
    /\ manualReq' = NoRequest
    /\ text' = <<>>
    /\ results' = Null
    /\ manualIsLoading' = FALSE
    /\ UNCHANGED error
    /\ UNCHANGED <<sessVars, hsVars, exVars, wdVars, upVars, serverWearable, activeTab>>

\* catch, finally.
SaveFail ==
    /\ manualReq.kind = "save"
    /\ manualReq' = NoRequest
    /\ error' = "Failed to save markers"
    /\ manualIsLoading' = FALSE
    /\ UNCHANGED <<text, results>>
    /\ UNCHANGED <<sessVars, hsVars, exVars, wdVars, upVars, serverVars, activeTab>>

OpenManualEntry == SetActiveTab("manual")

ManualNext ==
    \/ OpenManualEntry
    \/ \E value \in ManualTexts : ChangeText(value)
    \/ HandleTestText
    \/ TestOk
    \/ TestFail
    \/ HandleSaveToReports
    \/ SaveOk
    \/ SaveFail

ManualSpec == Init /\ [][ManualNext]_vars

----------------------------------------------------------------------------
(* WearableData *)

\* Its own fetchSummary: GET /wearable/summary, setSummary, finally.
WdSummaryGetOk ==
    /\ wdFetchPc = "fetching"
    /\ wdSummary' = serverWearable
    /\ wdLoading' = FALSE
    /\ wdFetchPc' = "idle"
    /\ UNCHANGED <<showAddForm, formData, wearableReq>>
    /\ UNCHANGED <<sessVars, hsVars, exVars, manualVars, upVars, serverVars, activeTab>>

WdSummaryGetFail ==
    /\ wdFetchPc = "fetching"
    /\ wdLoading' = FALSE
    /\ wdFetchPc' = "idle"
    /\ UNCHANGED <<showAddForm, formData, wearableReq, wdSummary>>
    /\ UNCHANGED <<sessVars, hsVars, exVars, manualVars, upVars, serverVars, activeTab>>

\* onClick={() => setShowAddForm(!showAddForm)}
ToggleAddForm ==
    /\ activeTab = "wearable"
    /\ ~wdLoading
    /\ showAddForm' = ~showAddForm
    /\ UNCHANGED <<formData, wearableReq, wdSummary, wdLoading, wdFetchPc>>
    /\ UNCHANGED <<sessVars, hsVars, exVars, manualVars, upVars, serverVars, activeTab>>

\* onChange={(e) => setFormData({ ...formData, [field]: e.target.value })}
ChangeFormData(field, value) ==
    /\ activeTab = "wearable"
    /\ ~wdLoading
    /\ showAddForm
    /\ formData' = [formData EXCEPT ![field] = value]
    /\ UNCHANGED <<showAddForm, wearableReq, wdSummary, wdLoading, wdFetchPc>>
    /\ UNCHANGED <<sessVars, hsVars, exVars, manualVars, upVars, serverVars, activeTab>>

\* handleSubmit, up to its await.
HandleSubmit ==
    /\ activeTab = "wearable"
    /\ ~wdLoading
    /\ showAddForm
    /\ wearableReq = NoRequest
    /\ wearableReq' = [kind |-> "add", body |-> handleSubmitBody(formData)]
    /\ UNCHANGED <<showAddForm, formData, wdSummary, wdLoading, wdFetchPc>>
    /\ UNCHANGED <<sessVars, hsVars, exVars, manualVars, upVars, serverVars, activeTab>>

\* response.ok: the entry is stored; setShowAddForm(false), the form is
\* reset, WearableData's own fetchSummary() starts, and onDataUpdate(), which
\* the page passes as () => {}, does nothing.
AddOk ==
    /\ wearableReq.kind = "add"
    /\ serverWearable' = StoredSummary(wearableReq.body)
    /\ wearableReq' = NoRequest
    /\ showAddForm' = FALSE
    /\ formData' = BlankForm
    /\ wdFetchPc' = "fetching"
    /\ UNCHANGED <<wdSummary, wdLoading>>
    /\ UNCHANGED <<sessVars, hsVars, exVars, manualVars, upVars, serverReports, activeTab>>

\* !response.ok or catch: an alert, no state change.
AddFail ==
    /\ wearableReq.kind = "add"
    /\ wearableReq' = NoRequest
    /\ UNCHANGED <<showAddForm, formData, wdSummary, wdLoading, wdFetchPc>>
    /\ UNCHANGED <<sessVars, hsVars, exVars, manualVars, upVars, serverVars, activeTab>>

----------------------------------------------------------------------------
(* FileUpload *)

\* A dropped file, by the text the backend reads from it.
File(ocr) == [ocr |-> ocr]

DroppedFiles == { <<>>, <<File(<<Word("FERRITIN"), Number(400)>>)>> }

\* onDrop, up to its await.
OnDrop(acceptedFiles) ==
    /\ activeTab = "upload"
    /\ uploadReq = NoRequest
    /\ IF Len(acceptedFiles) = 0
       THEN UNCHANGED <<uploading, uploadReq>>
       ELSE /\ uploading' = TRUE
            /\ uploadReq' = [kind |-> "upload", file |-> acceptedFiles[1]]
    /\ UNCHANGED <<sessVars, hsVars, exVars, manualVars, wdVars, serverVars, activeTab>>

\* response.ok: the report is stored; onUploadComplete(data), which the page
\* passes as a console.log; finally.
UploadOk ==
    /\ uploadReq.kind = "upload"
    /\ Len(serverReports) < MaxStored
    /\ serverReports' = <<StoredReport(uploadReq.file.ocr)>> \o serverReports
    /\ uploadReq' = NoRequest
    /\ uploading' = FALSE
    /\ UNCHANGED <<sessVars, hsVars, exVars, manualVars, wdVars, serverWearable, activeTab>>

\* !response.ok or catch: an alert; finally.
UploadFail ==
    /\ uploadReq.kind = "upload"
    /\ uploadReq' = NoRequest
    /\ uploading' = FALSE
    /\ UNCHANGED <<sessVars, hsVars, exVars, manualVars, wdVars, serverVars, activeTab>>

----------------------------------------------------------------------------
(* The dashboard page: HealthSummary above the tabs, fetching from the     *)
(* backend's stores                                                        *)

ServerWearableGetOk == WearableGetOkWith(serverWearable)
ServerReportsGetOk == ReportsGetOkWith(serverReports)

\* What the user types into the wearable form.
DashFormValues ==
    { <<"steps", "">>, <<"steps", "5000">>, <<"sleep", "">>, <<"sleep", "6.5">> }

DashNext ==
    \/ \E tab \in Tabs : SetActiveTab(tab)
    \/ ServerWearableGetOk
    \/ WearableGetFail
    \/ ServerReportsGetOk
    \/ ReportsGetFail
    \/ \E value \in ManualTexts : ChangeText(value)
    \/ HandleTestText
    \/ TestOk
    \/ TestFail
    \/ HandleSaveToReports
    \/ SaveOk
    \/ SaveFail
    \/ WdSummaryGetOk
    \/ WdSummaryGetFail
    \/ ToggleAddForm
    \/ \E fv \in DashFormValues : ChangeFormData(fv[1], fv[2])
    \/ HandleSubmit
    \/ AddOk
    \/ AddFail
    \/ \E acceptedFiles \in DroppedFiles : OnDrop(acceptedFiles)
    \/ UploadOk
    \/ UploadFail

DashSpec == Init /\ [][DashNext]_vars

----------------------------------------------------------------------------
(* The backend's chat endpoints, as the frontend calls them *)

SessionIds == 1..MaxSessions

\* A message.  sid names the session whose conversation it was written in;
\* ids of messages made in the browser come from the clock (Date.now()),
\* ids of stored messages from the backend.
UserMessage(sid, n) == [id |-> <<"t", n>>, role |-> "user", sid |-> sid]
StoredUserMessage(sid, n) == [id |-> <<"u", n>>, role |-> "user", sid |-> sid]
AssistantMessage(sid, n) == [id |-> <<"a", n>>, role |-> "assistant", sid |-> sid]

Exists(id) == \E i \in 1..Len(serverSessions) : serverSessions[i] = id

\* GET /chat/sessions/{id}/messages
SessionData(id) == [t |-> "obj", id |-> id, messages |-> serverMessages[id]]

\* POST /chat/sessions
NewSession(id) == [t |-> "obj", id |-> id, messages |-> <<>>]

\* prev.filter(x => x.id !== id), on a list of sessions or of messages
RECURSIVE FilterOut_KeepsFirst(_, _)
FilterOut_KeepsFirst(list, id) ==
    IF Len(list) <= 1 THEN list
    ELSE <<Head(list)>> \o
         (IF Head(Tail(list)).id = id THEN <<>> ELSE <<Head(Tail(list))>>)
         \o Tail(FilterOut_KeepsFirst(Tail(list), id))
RECURSIVE FilterOut(_, _)
FilterOut(list, id) ==
    IF list = <<>> THEN <<>>
    ELSE (IF Head(list).id = id THEN <<>> ELSE <<Head(list)>>) \o FilterOut(Tail(list), id)

----------------------------------------------------------------------------
(* Chat *)

ChatInputs == { <<>>, <<Space>>, <<Word("hi")>> }

\* useEffect(..., [sessions]): when the list is not empty and no session is
\* current, loadLastSession starts; it keeps the list it was started with.
SessionsEffect(list, current) ==
    IF Len(list) > 0 /\ current = Null
    THEN lastSessionReq' = [kind |-> "last", latest |-> list[Len(list)]]
    ELSE UNCHANGED lastSessionReq

\* loadChatSessions: setSessions(response.data), finally.
ChatSessionsGetOk ==
    /\ chatSessionsPc = "loading"
    /\ chatSessionsPc' = "done"
    /\ chatSessions' = serverSessions
    /\ loadingHistory' = FALSE
    /\ SessionsEffect(serverSessions, chatCurrent)
    /\ UNCHANGED <<chatCurrent, messages, inputMessage, chatIsLoading, chatLoadReqs,
                   chatCreateReq, chatSendReqs, clock>>
    /\ UNCHANGED <<hsVars, exVars, uiVars, pageVars, serverChatVars>>

ChatSessionsGetFail ==
    /\ chatSessionsPc = "loading"
    /\ chatSessionsPc' = "done"
    /\ loadingHistory' = FALSE
    /\ UNCHANGED <<chatSessions, chatCurrent, messages, inputMessage, chatIsLoading,
                   lastSessionReq, chatLoadReqs, chatCreateReq, chatSendReqs, clock>>
    /\ UNCHANGED <<hsVars, exVars, uiVars, pageVars, serverChatVars>>

\* loadLastSession, answered: the session the backend names, or, when it
\* names none, the last of the list.
LastSessionGetOk(data) ==
    /\ lastSessionReq # NoRequest
    /\ lastSessionReq' = NoRequest
    /\ chatLoadReqs' = chatLoadReqs \cup {IF data # Null THEN data.id ELSE lastSessionReq.latest}
    /\ UNCHANGED <<chatSessions, chatCurrent, messages, inputMessage, chatIsLoading,
                   loadingHistory, chatSessionsPc, chatCreateReq, chatSendReqs, clock>>
    /\ UNCHANGED <<hsVars, exVars, uiVars, pageVars, serverChatVars>>

\* loadLastSession, failed: the last of the list.
LastSessionGetFail ==
    /\ lastSessionReq # NoRequest
    /\ lastSessionReq' = NoRequest
    /\ chatLoadReqs' = chatLoadReqs \cup {lastSessionReq.latest}
    /\ UNCHANGED <<chatSessions, chatCurrent, messages, inputMessage, chatIsLoading,
                   loadingHistory, chatSessionsPc, chatCreateReq, chatSendReqs, clock>>
    /\ UNCHANGED <<hsVars, exVars, uiVars, pageVars, serverChatVars>>

\* onClick={() => loadSessionMessages(session.id)}, up to its await.
ChatLoadSessionMessages(id) ==
    /\ ~loadingHistory
    /\ \E i \in 1..Len(chatSessions) : chatSessions[i] = id
    /\ chatLoadReqs' = chatLoadReqs \cup {id}
    /\ UNCHANGED <<chatSessions, chatCurrent, messages, inputMessage, chatIsLoading,
                   loadingHistory, chatSessionsPc, lastSessionReq, chatCreateReq,
                   chatSendReqs, clock>>
    /\ UNCHANGED <<hsVars, exVars, uiVars, pageVars, serverChatVars>>

\* loadSessionMessages, answered: setCurrentSession(sessionData) and
\* setMessages(sessionData.messages).
ChatSessionMessagesGetOk(id) ==
    /\ id \in chatLoadReqs
    /\ Exists(id)
    /\ chatLoadReqs' = chatLoadReqs \ {id}
    /\ chatCurrent' = SessionData(id)
    /\ messages' = SessionData(id).messages
    /\ UNCHANGED <<chatSessions, inputMessage, chatIsLoading, loadingHistory,
                   chatSessionsPc, lastSessionReq, chatCreateReq, chatSendReqs, clock>>
    /\ UNCHANGED <<hsVars, exVars, uiVars, pageVars, serverChatVars>>

ChatSessionMessagesGetFail(id) ==
    /\ id \in chatLoadReqs
    /\ chatLoadReqs' = chatLoadReqs \ {id}
    /\ UNCHANGED <<chatSessions, chatCurrent, messages, inputMessage, chatIsLoading,
                   loadingHistory, chatSessionsPc, lastSessionReq, chatCreateReq,
                   chatSendReqs, clock>>
    /\ UNCHANGED <<hsVars, exVars, uiVars, pageVars, serverChatVars>>

\* createNewSession, up to its await.
ChatCreateNewSession ==
    /\ ~loadingHistory
    /\ ~chatCreateReq
    /\ chatCreateReq' = TRUE
    /\ UNCHANGED <<chatSessions, chatCurrent, messages, inputMessage, chatIsLoading,
                   loadingHistory, chatSessionsPc, lastSessionReq, chatLoadReqs,
                   chatSendReqs, clock>>
    /\ UNCHANGED <<hsVars, exVars, uiVars, pageVars, serverChatVars>>

\* createNewSession, answered: the session is appended and made current.
ChatCreateOk ==
    /\ chatCreateReq
    /\ nextSessionId <= MaxSessions
    /\ chatCreateReq' = FALSE
    /\ serverSessions' = Append(serverSessions, nextSessionId)
    /\ nextSessionId' = nextSessionId + 1
    /\ chatSessions' = Append(chatSessions, nextSessionId)
    /\ chatCurrent' = NewSession(nextSessionId)
    /\ messages' = <<>>
    /\ SessionsEffect(Append(chatSessions, nextSessionId), NewSession(nextSessionId))
    /\ UNCHANGED <<inputMessage, chatIsLoading, loadingHistory, chatSessionsPc,
                   chatLoadReqs, chatSendReqs, clock, serverMessages>>
    /\ UNCHANGED <<hsVars, exVars, uiVars, pageVars>>

ChatCreateFail ==
    /\ chatCreateReq
    /\ chatCreateReq' = FALSE
    /\ UNCHANGED <<chatSessions, chatCurrent, messages, inputMessage, chatIsLoading,
                   loadingHistory, chatSessionsPc, lastSessionReq, chatLoadReqs,
                   chatSendReqs, clock>>
    /\ UNCHANGED <<hsVars, exVars, uiVars, pageVars, serverChatVars>>

\* onChange={(e) => setInputMessage(e.target.value)}; the input is disabled
\* without a current session and while a send is in flight.
ChangeInputMessage(value) ==
    /\ ~loadingHistory
    /\ chatCurrent # Null
    /\ ~chatIsLoading
    /\ inputMessage' = value
    /\ UNCHANGED <<chatSessions, chatCurrent, messages, chatIsLoading, loadingHistory,
                   chatSessionsPc, lastSessionReq, chatLoadReqs, chatCreateReq,
                   chatSendReqs, clock>>
    /\ UNCHANGED <<hsVars, exVars, uiVars, pageVars, serverChatVars>>

\* if (!inputMessage.trim() || !currentSession || isLoading) return;
SendRefused == Trim(inputMessage) = <<>> \/ chatCurrent = Null \/ chatIsLoading

SendMessage_NotLoading ==
    /\ ~loadingHistory
    /\ IF SendRefused
       THEN UNCHANGED <<messages, inputMessage, chatIsLoading, chatSendReqs, clock>>
       ELSE /\ clock < MaxSends
            /\ clock' = clock + 1
            /\ messages' = Append(messages, UserMessage(chatCurrent.id, clock + 1))
            /\ inputMessage' = <<>>
            /\ UNCHANGED chatIsLoading
            /\ chatSendReqs' = chatSendReqs \cup
                 {[sessionId |-> chatCurrent.id, content |-> inputMessage,
                   userMessage |-> UserMessage(chatCurrent.id, clock + 1),
                   before |-> messages]}
    /\ UNCHANGED <<chatSessions, chatCurrent, loadingHistory, chatSessionsPc,
                   lastSessionReq, chatLoadReqs, chatCreateReq>>
    /\ UNCHANGED <<hsVars, exVars, uiVars, pageVars, serverChatVars>>

\* sendMessage, up to its await.  The request keeps what the call's closure
\* holds: the session id, the content, the user message; and, for the
\* statements about rollback, the list displayed when the call was made.
SendMessage ==
    /\ ~loadingHistory
    /\ IF SendRefused
       THEN UNCHANGED <<messages, inputMessage, chatIsLoading, chatSendReqs, clock>>
       ELSE /\ clock < MaxSends
            /\ clock' = clock + 1
            /\ messages' = Append(messages, UserMessage(chatCurrent.id, clock + 1))
            /\ inputMessage' = <<>>
            /\ chatIsLoading' = TRUE
            /\ chatSendReqs' = chatSendReqs \cup
                 {[sessionId |-> chatCurrent.id, content |-> inputMessage,
                   userMessage |-> UserMessage(chatCurrent.id, clock + 1),
                   before |-> messages]}
    /\ UNCHANGED <<chatSessions, chatCurrent, loadingHistory, chatSessionsPc,
                   lastSessionReq, chatLoadReqs, chatCreateReq>>
    /\ UNCHANGED <<hsVars, exVars, uiVars, pageVars, serverChatVars>>

\* sendMessage, answered: the reply is appended to the displayed messages, and
\* the user message and the reply to the current session's messages; finally.
SendOk(req) ==
    /\ req \in chatSendReqs
    /\ Exists(req.sessionId)
    /\ chatSendReqs' = chatSendReqs \ {req}
    /\ LET n == req.userMessage.id[2]
           assistantMessage == AssistantMessage(req.sessionId, n)
       IN  /\ serverMessages' =
                 [serverMessages EXCEPT ![req.sessionId] =
                     @ \o <<StoredUserMessage(req.sessionId, n), assistantMessage>>]
           /\ messages' = Append(messages, assistantMessage)
           /\ chatCurrent' =
                 IF chatCurrent # Null
                 THEN [chatCurrent EXCEPT !.messages =
                          @ \o <<req.userMessage, assistantMessage>>]
                 ELSE Null
    /\ chatIsLoading' = FALSE
    /\ UNCHANGED <<chatSessions, inputMessage, loadingHistory, chatSessionsPc,
                   lastSessionReq, chatLoadReqs, chatCreateReq, clock,
                   serverSessions, nextSessionId>>
    /\ UNCHANGED <<hsVars, exVars, uiVars, pageVars>>

\* sendMessage, failed: the user message is filtered out again; finally.
SendFail(req) ==
    /\ req \in chatSendReqs
    /\ chatSendReqs' = chatSendReqs \ {req}
    /\ messages' = FilterOut(messages, req.userMessage.id)
    /\ chatIsLoading' = FALSE
    /\ UNCHANGED <<chatSessions, chatCurrent, inputMessage, loadingHistory,
                   chatSessionsPc, lastSessionReq, chatLoadReqs, chatCreateReq, clock>>
    /\ UNCHANGED <<hsVars, exVars, uiVars, pageVars, serverChatVars>>

\* The sessions the backend holds when the page opens: none, or one with an
\* exchange stored.
StoredSessions == { <<>>, <<1>> }

ChatInit ==
    /\ summary = EmptySummary
    /\ recentReports = <<>>
    /\ isLoading = TRUE
    /\ healthScore = NotRendered
    /\ rating = ""
    /\ fetchPc = "wearable"
    /\ wearableResponse = Undefined
    /\ view = NoView
    /\ renderError = FALSE
    /\ rawText = Str(<<>>)
    /\ extraction = NoExtraction
    /\ UiInit
    /\ chatSessions = <<>>
    /\ chatCurrent = Null
    /\ messages = <<>>
    /\ inputMessage = <<>>
    /\ chatIsLoading = FALSE
    /\ loadingHistory = TRUE
    /\ chatSessionsPc = "loading"
    /\ lastSessionReq = NoRequest
    /\ chatLoadReqs = {}
    /\ chatCreateReq = FALSE
    /\ chatSendReqs = {}
    /\ clock = 0
    /\ sessions = <<>>
    /\ currentSession = Null
    /\ loadingSessions = TRUE
    /\ pageLoadReqs = {}
    /\ pageDeleteReqs = {}
    /\ pageCreateReq = FALSE
    /\ serverSessions \in StoredSessions
    /\ serverMessages =
         [id \in SessionIds |->
            IF id = 1 /\ serverSessions # <<>>
            THEN <<StoredUserMessage(1, 0), AssistantMessage(1, 0)>> ELSE <<>>]
    /\ nextSessionId = Len(serverSessions) + 1

\* GET /chat/last-session: the session the backend names, or none
LastSessions == {Null} \cup {SessionData(serverSessions[i]) : i \in 1..Len(serverSessions)}

ChatNext ==
    \/ ChatSessionsGetOk
    \/ ChatSessionsGetFail
    \/ \E data \in LastSessions : LastSessionGetOk(data)
    \/ LastSessionGetFail
    \/ \E id \in SessionIds : ChatLoadSessionMessages(id)
    \/ \E id \in SessionIds : ChatSessionMessagesGetOk(id)
    \/ \E id \in SessionIds : ChatSessionMessagesGetFail(id)
    \/ ChatCreateNewSession
    \/ ChatCreateOk
    \/ ChatCreateFail
    \/ \E value \in ChatInputs : ChangeInputMessage(value)
    \/ SendMessage
    \/ \E req \in chatSendReqs : SendOk(req)
    \/ \E req \in chatSendReqs : SendFail(req)

ChatSpec == ChatInit /\ [][ChatNext]_vars

----------------------------------------------------------------------------
(* DashboardPage: the sessions of the sidebar *)

\* loadChatSessions: setSessions(response.data), finally.
PageSessionsGetOk ==
    /\ loadingSessions
    /\ loadingSessions' = FALSE
    /\ sessions' = serverSessions
    /\ UNCHANGED <<currentSession, pageLoadReqs, pageDeleteReqs, pageCreateReq>>
    /\ UNCHANGED <<hsVars, exVars, uiVars, chatVars, serverChatVars>>

PageSessionsGetFail ==
    /\ loadingSessions
    /\ loadingSessions' = FALSE
    /\ UNCHANGED <<sessions, currentSession, pageLoadReqs, pageDeleteReqs, pageCreateReq>>
    /\ UNCHANGED <<hsVars, exVars, uiVars, chatVars, serverChatVars>>

\* onClick={() => loadSessionMessages(session.id)}, up to its await.
PageLoadSessionMessages(sessionId) ==
    /\ \E i \in 1..Len(sessions) : sessions[i] = sessionId
    /\ pageLoadReqs' = pageLoadReqs \cup {sessionId}
    /\ UNCHANGED <<sessions, currentSession, loadingSessions, pageDeleteReqs, pageCreateReq>>
    /\ UNCHANGED <<hsVars, exVars, uiVars, chatVars, serverChatVars>>

\* loadSessionMessages, answered: setCurrentSession(sessionData).
PageSessionMessagesGetOk(sessionId) ==
    /\ sessionId \in pageLoadReqs
    /\ Exists(sessionId)
    /\ pageLoadReqs' = pageLoadReqs \ {sessionId}
    /\ currentSession' = SessionData(sessionId)
    /\ UNCHANGED <<sessions, loadingSessions, pageDeleteReqs, pageCreateReq>>
    /\ UNCHANGED <<hsVars, exVars, uiVars, chatVars, serverChatVars>>

PageSessionMessagesGetFail(sessionId) ==
    /\ sessionId \in pageLoadReqs
    /\ pageLoadReqs' = pageLoadReqs \ {sessionId}
    /\ UNCHANGED <<sessions, currentSession, loadingSessions, pageDeleteReqs, pageCreateReq>>
    /\ UNCHANGED <<hsVars, exVars, uiVars, chatVars, serverChatVars>>

\* createNewSession, up to its await.
PageCreateNewSession ==
    /\ ~pageCreateReq
    /\ pageCreateReq' = TRUE
    /\ UNCHANGED <<sessions, currentSession, loadingSessions, pageLoadReqs, pageDeleteReqs>>
    /\ UNCHANGED <<hsVars, exVars, uiVars, chatVars, serverChatVars>>

\* createNewSession, answered: the session is appended and made current.
PageCreateOk ==
    /\ pageCreateReq
    /\ nextSessionId <= MaxSessions
    /\ pageCreateReq' = FALSE
    /\ serverSessions' = Append(serverSessions, nextSessionId)
    /\ nextSessionId' = nextSessionId + 1
    /\ sessions' = Append(sessions, nextSessionId)
    /\ currentSession' = NewSession(nextSessionId)
    /\ UNCHANGED <<loadingSessions, pageLoadReqs, pageDeleteReqs, serverMessages>>
    /\ UNCHANGED <<hsVars, exVars, uiVars, chatVars>>

PageCreateFail ==
    /\ pageCreateReq
    /\ pageCreateReq' = FALSE
    /\ UNCHANGED <<sessions, currentSession, loadingSessions, pageLoadReqs, pageDeleteReqs>>
    /\ UNCHANGED <<hsVars, exVars, uiVars, chatVars, serverChatVars>>

\* currentSession?.id
IdOf(session) == IF session = Null THEN Undefined ELSE Num(session.id)

\* deleteSession, up to its await: nothing when the confirmation is declined.
\* The call keeps the currentSession of the render its handler was made in.
DeleteSession(sessionId, confirmed) ==
    /\ \E i \in 1..Len(sessions) : sessions[i] = sessionId
    /\ IF confirmed
       THEN pageDeleteReqs' = pageDeleteReqs \cup
               {[sessionId |-> sessionId, currentSession |-> currentSession]}
       ELSE UNCHANGED pageDeleteReqs
    /\ UNCHANGED <<sessions, currentSession, loadingSessions, pageLoadReqs, pageCreateReq>>
    /\ UNCHANGED <<hsVars, exVars, uiVars, chatVars, serverChatVars>>

\* deleteSession, answered: the session is filtered out of sessions, and
\* currentSession is cleared if the call's currentSession was the session.
DeleteOk(req) ==
    /\ req \in pageDeleteReqs
    /\ Exists(req.sessionId)
    /\ pageDeleteReqs' = pageDeleteReqs \ {req}
    /\ serverSessions' = SelectSeq(serverSessions, LAMBDA id : id # req.sessionId)
    /\ sessions' = SelectSeq(sessions, LAMBDA id : id # req.sessionId)
    /\ currentSession' =
         IF IdOf(req.currentSession) = Num(req.sessionId) THEN Null ELSE currentSession
    /\ UNCHANGED <<loadingSessions, pageLoadReqs, pageCreateReq, serverMessages, nextSessionId>>
    /\ UNCHANGED <<hsVars, exVars, uiVars, chatVars>>

DeleteFail(req) ==
    /\ req \in pageDeleteReqs
    /\ pageDeleteReqs' = pageDeleteReqs \ {req}
    /\ UNCHANGED <<sessions, currentSession, loadingSessions, pageLoadReqs, pageCreateReq>>
    /\ UNCHANGED <<hsVars, exVars, uiVars, chatVars, serverChatVars>>

PageNext ==
    \/ PageSessionsGetOk
    \/ PageSessionsGetFail
    \/ \E sessionId \in SessionIds : PageLoadSessionMessages(sessionId)
    \/ \E sessionId \in SessionIds : PageSessionMessagesGetOk(sessionId)
    \/ \E sessionId \in SessionIds : PageSessionMessagesGetFail(sessionId)
    \/ PageCreateNewSession
    \/ PageCreateOk
    \/ PageCreateFail
    \/ \E sessionId \in SessionIds, confirmed \in BOOLEAN : DeleteSession(sessionId, confirmed)
    \/ \E req \in pageDeleteReqs : DeleteOk(req)
    \/ \E req \in pageDeleteReqs : DeleteFail(req)

PageSpec == ChatInit /\ [][PageNext]_vars

\* The page with the Chat tab open: the sidebar's sessions are deleted while
\* Chat, mounted without props, keeps its own.
SessNext ==
    \/ ChatNext
    \/ PageSessionsGetOk
    \/ PageSessionsGetFail
    \/ \E sessionId \in SessionIds, confirmed \in BOOLEAN : DeleteSession(sessionId, confirmed)
    \/ \E req \in pageDeleteReqs : DeleteOk(req)
    \/ \E req \in pageDeleteReqs : DeleteFail(req)

SessSpec == ChatInit /\ [][SessNext]_vars

----------------------------------------------------------------------------
(* The scorer alone, on every input of the bounded input sets *)

ScoreInit ==
    /\ summary \in SummaryInputs
    /\ recentReports \in ReportListInputs
    /\ isLoading = FALSE
    /\ healthScore = NotRendered
    /\ rating = ""
    /\ fetchPc = "done"
    /\ wearableResponse = Undefined
    /\ view = NoView
    /\ renderError = FALSE
    /\ rawText = Str(<<>>)
    /\ extraction = NoExtraction
    /\ UiInit
    /\ SessInit

Evaluate ==
    /\ healthScore = NotRendered
    /\ ~renderError
    /\ Render(summary, recentReports)
    /\ UNCHANGED <<summary, recentReports, isLoading, fetchPc, wearableResponse>>
    /\ UNCHANGED <<exVars, uiVars, sessVars>>

ScoreNext == Evaluate

ScoreSpec == ScoreInit /\ [][ScoreNext]_vars

Evaluated == healthScore # NotRendered

----------------------------------------------------------------------------
(* The extractor alone, on every text of the bounded input set *)

ExtractInit ==
    /\ summary = EmptySummary
    /\ recentReports = <<>>
    /\ isLoading = TRUE
    /\ healthScore = NotRendered
    /\ rating = ""
    /\ fetchPc = "wearable"
    /\ wearableResponse = Undefined
    /\ view = NoView
    /\ renderError = FALSE
    /\ rawText \in RawTextInputs
    /\ extraction = NoExtraction
    /\ UiInit
    /\ SessInit

Extract ==
    /\ extraction = NoExtraction
    /\ extraction' = extract(rawText)
    /\ UNCHANGED rawText
    /\ UNCHANGED <<hsVars, uiVars, sessVars>>

ExtractNext == Extract

ExtractSpec == ExtractInit /\ [][ExtractNext]_vars

Extracted == extraction.t = "ok"

----------------------------------------------------------------------------
(* Properties of the scorer.  The conditions below are written from the    *)
(* stated rules, on the raw input, without the scorer's own operators.     *)

HasFactor(f) == \E i \in 1..Len(healthScore.factors) : healthScore.factors[i] = f

CountFactor(f) == Cardinality({i \in 1..Len(healthScore.factors) : healthScore.factors[i] = f})

\* latest is zero, null or missing, or the metric record itself is missing.
Absent(m) ==
    \/ m.t # "obj"
    \/ m.latest.t \in {"undefined", "null"}
    \/ (m.latest.t = "num" /\ m.latest.v = 0)

\* latest is a positive number.
Positive(m) == m.t = "obj" /\ m.latest.t = "num" /\ m.latest.v > 0

StepsLow(s) == Positive(s.steps) /\ s.steps.latest.v < 8000
HeartRateOut(s) ==
    Positive(s.heart_rate) /\ (s.heart_rate.latest.v < 60 \/ s.heart_rate.latest.v > 100)
SleepShort(s) == Positive(s.sleep) /\ s.sleep.latest.v < 70

\* Number of flagged markers of a report; 0 without a flagged_markers collection.
FlaggedCount(report) ==
    IF report.flagged_markers.t = "obj" THEN Cardinality(report.flagged_markers.keys) ELSE 0

CountText(n) ==
    CASE n = 1 -> "1 abnormal lab markers"
      [] n = 2 -> "2 abnormal lab markers"
      [] OTHER -> "?"

RECURSIVE ExpectedReportFactors(_)
ExpectedReportFactors(reports) ==
    IF reports = <<>> THEN <<>>
    ELSE (IF FlaggedCount(Head(reports)) >= 1
          THEN <<CountText(FlaggedCount(Head(reports)))>> ELSE <<>>)
         \o ExpectedReportFactors(Tail(reports))

ExpectedWearableFactors(s) ==
    (IF StepsLow(s) THEN <<"Low step count">> ELSE <<>>)
    \o (IF HeartRateOut(s) THEN <<"Heart rate outside normal range">> ELSE <<>>)
    \o (IF SleepShort(s) THEN <<"Insufficient sleep">> ELSE <<>>)

ExpectedDeductions(s, reports) ==
    (IF StepsLow(s) THEN 10 ELSE 0) + (IF HeartRateOut(s) THEN 15 ELSE 0)
    + (IF SleepShort(s) THEN 15 ELSE 0) + 20 * Len(ExpectedReportFactors(reports))

Floor0(n) == IF n < 0 THEN 0 ELSE n

Without(s, field) == [s EXCEPT ![field] = Undefined]

\* C1: every score returned by getHealthScore is an integer of 0..100, also
\* when the deductions add up to more than 100.
C1_ScoreInRange == Evaluated => healthScore.score \in 0..100

C1_Witness ==
    /\ Evaluated
    /\ ExpectedDeductions(summary, recentReports) > 100
    /\ healthScore.score = 0

\* C2: a metric whose latest is zero, null or missing, or whose record is
\* missing, adds no factor and no deduction whatever its average is: the result
\* is the result for the summary without that metric.  The value handleSubmit
\* sends for a blank form field is such a latest.
C2_AbsentMetricIgnored ==
    Evaluated =>
      /\ Absent(summary.steps) =>
           /\ ~HasFactor("Low step count")
           /\ healthScore = getHealthScore(Without(summary, "steps"), recentReports)
      /\ Absent(summary.heart_rate) =>
           /\ ~HasFactor("Heart rate outside normal range")
           /\ healthScore = getHealthScore(Without(summary, "heart_rate"), recentReports)
      /\ Absent(summary.sleep) =>
           /\ ~HasFactor("Insufficient sleep")
           /\ healthScore = getHealthScore(Without(summary, "sleep"), recentReports)
      /\ \A str \in FormStrings :
           LET body == handleSubmitBody([steps |-> str, heart_rate |-> str, sleep |-> str])
           IN  str = "" =>
                 /\ (summary.steps.t = "obj" /\ summary.steps.latest = body.steps)
                      => ~HasFactor("Low step count")
                 /\ (summary.heart_rate.t = "obj"
                       /\ summary.heart_rate.latest = body.heart_rate)
                      => ~HasFactor("Heart rate outside normal range")
                 /\ (summary.sleep.t = "obj" /\ summary.sleep.latest = body.sleep_hours)
                      => ~HasFactor("Insufficient sleep")

C2_Witness ==
    /\ Evaluated
    /\ summary.steps.t = "obj" /\ summary.steps.latest = handleSubmitBody(BlankForm).steps
    /\ summary.steps.average = Num(9000)
    /\ summary.heart_rate.t = "obj"
    /\ summary.heart_rate.latest = handleSubmitBody(BlankForm).heart_rate
    /\ summary.sleep.t = "obj" /\ summary.sleep.latest = Undefined
    /\ healthScore.score = 100

\* C3: with all three metrics absent and no recent report the score is 100,
\* there is no factor and the rating is Excellent.
C3_EmptyInputs ==
    (/\ Evaluated
     /\ Absent(summary.steps) /\ Absent(summary.heart_rate) /\ Absent(summary.sleep)
     /\ recentReports = <<>>)
    => /\ healthScore.score = 100
       /\ healthScore.factors = <<>>
       /\ rating = "Excellent"

C3_Witness ==
    /\ Evaluated
    /\ summary = EmptySummary
    /\ recentReports = <<>>
    /\ healthScore = [score |-> 100, factors |-> <<>>]
    /\ rating = "Excellent"

\* C4: each report with at least one flagged marker costs exactly 20 and adds
\* exactly one factor "<count> abnormal lab markers", in report order, after
\* the wearable factors; a report without flagged markers adds nothing.
C4_PerReportDeduction ==
    Evaluated =>
      LET wearable == getHealthScore(summary, <<>>)
          expected == ExpectedReportFactors(recentReports)
      IN  /\ healthScore.factors = wearable.factors \o expected
          /\ healthScore.score = Floor0(wearable.score - 20 * Len(expected))
          /\ Len(expected) =
               Cardinality({i \in 1..Len(recentReports) : FlaggedCount(recentReports[i]) >= 1})

C4_Witness ==
    /\ Evaluated
    /\ summary = EmptySummary
    /\ recentReports = <<Report(Flagged({"FERRITIN", "GLUCOSE"})), Report(Flagged({})),
                         Report(Undefined), Report(Flagged({"FERRITIN"}))>>
    /\ healthScore.score = 60
    /\ healthScore.factors = <<"2 abnormal lab markers", "1 abnormal lab markers">>

\* C5: 10 is subtracted and "Low step count" added, once, if and only if
\* steps.latest is a positive number below 8000.
C5_StepsRule ==
    Evaluated =>
      LET rest == getHealthScore(Without(summary, "steps"), recentReports)
      IN  IF StepsLow(summary)
          THEN /\ CountFactor("Low step count") = 1
               /\ healthScore.score = Floor0(rest.score - 10)
          ELSE /\ ~HasFactor("Low step count")
               /\ healthScore = rest

C5_Witness ==
    /\ Evaluated
    /\ summary.steps.t = "obj" /\ summary.steps.latest = Num(8000)
    /\ summary.heart_rate = Undefined /\ summary.sleep = Undefined
    /\ recentReports = <<>>
    /\ healthScore.score = 100

\* C6: 15 is subtracted and "Heart rate outside normal range" added, once, if
\* and only if heart_rate.latest is a positive number below 60 or above 100.
C6_HeartRateRule ==
    Evaluated =>
      LET rest == getHealthScore(Without(summary, "heart_rate"), recentReports)
      IN  IF HeartRateOut(summary)
          THEN /\ CountFactor("Heart rate outside normal range") = 1
               /\ healthScore.score = Floor0(rest.score - 15)
          ELSE /\ ~HasFactor("Heart rate outside normal range")
               /\ healthScore = rest

C6_Witness ==
    /\ Evaluated
    /\ summary.heart_rate.t = "obj" /\ summary.heart_rate.latest = Num(100)
    /\ summary.steps = Undefined /\ summary.sleep = Undefined
    /\ recentReports = <<>>
    /\ healthScore.score = 100

\* C7: 15 is subtracted and "Insufficient sleep" added, once, if and only if
\* sleep.latest is a positive number below 7 hours.
C7_SleepRule ==
    Evaluated =>
      LET rest == getHealthScore(Without(summary, "sleep"), recentReports)
      IN  IF SleepShort(summary)
          THEN /\ CountFactor("Insufficient sleep") = 1
               /\ healthScore.score = Floor0(rest.score - 15)
          ELSE /\ ~HasFactor("Insufficient sleep")
               /\ healthScore = rest

C7_Witness ==
    /\ Evaluated
    /\ summary.sleep.t = "obj" /\ summary.sleep.latest = Num(70)
    /\ summary.steps = Undefined /\ summary.heart_rate = Undefined
    /\ recentReports = <<>>
    /\ healthScore.score = 100

\* r is the rating of the band score lies in.
InBand(score, r) ==
    \/ r = "Excellent" /\ score >= 80
    \/ r = "Good" /\ 60 <= score /\ score < 80
    \/ r = "Fair" /\ 40 <= score /\ score < 60
    \/ r = "Needs Attention" /\ score < 40

\* C8: every score of 0..100 is given the rating of the one band it lies in,
\* and the rating shown is the one of the score shown.
C8_RatingBands ==
    Evaluated =>
      /\ \A sc \in 0..100 :
           /\ InBand(sc, Rating(sc))
           /\ \A r \in {"Excellent", "Good", "Fair", "Needs Attention"} \ {Rating(sc)} :
                ~InBand(sc, r)
      /\ InBand(healthScore.score, rating)

C8_Witness == Evaluated /\ healthScore.score = 60 /\ rating = "Good"

\* C9: the score is max(0, 100 - sum of the applicable deductions), the factors
\* are one entry per deduction in the order steps, heart rate, sleep, reports;
\* the score is below 100 exactly when there is a factor; the example of steps
\* 5000, heart rate 72, sleep 8 and one report with one flagged marker gives 70.
C9_ScoreAndFactors ==
    Evaluated =>
      /\ healthScore.score = Floor0(100 - ExpectedDeductions(summary, recentReports))
      /\ healthScore.factors =
           ExpectedWearableFactors(summary) \o ExpectedReportFactors(recentReports)
      /\ (healthScore.score < 100) <=> (healthScore.factors # <<>>)
      /\ (/\ Positive(summary.steps) /\ summary.steps.latest.v = 5000
          /\ Positive(summary.heart_rate) /\ summary.heart_rate.latest.v = 72
          /\ Positive(summary.sleep) /\ summary.sleep.latest.v = 80
          /\ Len(recentReports) = 1 /\ FlaggedCount(recentReports[1]) = 1)
         => /\ healthScore.score = 70
            /\ rating = "Good"
            /\ healthScore.factors = <<"Low step count", "1 abnormal lab markers">>

C9_Witness ==
    /\ Evaluated
    /\ summary = [steps |-> Metric(Num(5000), Num(5000)),
                  heart_rate |-> Metric(Num(72), Num(72)),
                  sleep |-> Metric(Num(80), Num(80))]
    /\ recentReports = <<Report(Flagged({"FERRITIN"}))>>
    /\ healthScore.score = 70

RECURSIVE IsSubseq(_, _)
IsSubseq(a, b) ==
    IF a = <<>> THEN TRUE
    ELSE IF b = <<>> THEN FALSE
    ELSE IF Head(a) = Head(b) THEN IsSubseq(Tail(a), Tail(b))
    ELSE IsSubseq(a, Tail(b))

\* The inputs that differ from (s, reports) by one more deduction condition:
\* a metric without deduction made out of range, or an abnormal report appended.
Worse(s, reports) ==
    { [s |-> [s EXCEPT !.steps = m], r |-> reports] :
        m \in {x \in StepsInputs : ~StepsLow(s) /\ StepsLow([s EXCEPT !.steps = x])} }
    \cup { [s |-> [s EXCEPT !.heart_rate = m], r |-> reports] :
        m \in {x \in HeartRateInputs :
                 ~HeartRateOut(s) /\ HeartRateOut([s EXCEPT !.heart_rate = x])} }
    \cup { [s |-> [s EXCEPT !.sleep = m], r |-> reports] :
        m \in {x \in SleepInputs : ~SleepShort(s) /\ SleepShort([s EXCEPT !.sleep = x])} }
    \cup { [s |-> s, r |-> Append(reports, x)] :
        x \in {y \in ReportInputs : FlaggedCount(y) >= 1} }

\* C10: making one more deduction condition true never raises the score and
\* keeps the former factors as a sub-sequence of the new ones.
C10_Monotone ==
    Evaluated =>
      \A b \in Worse(summary, recentReports) :
        LET hb == getHealthScore(b.s, b.r)
        IN  /\ hb.score <= healthScore.score
            /\ IsSubseq(healthScore.factors, hb.factors)
            /\ Len(hb.factors) = Len(healthScore.factors) + 1

C10_Witness ==
    /\ Evaluated
    /\ healthScore.score = 70
    /\ recentReports = <<Report(Flagged({"FERRITIN"}))>>
    /\ \E b \in Worse(summary, recentReports) :
         /\ b.r # recentReports
         /\ getHealthScore(b.s, b.r).score = 50
    /\ \E b \in Worse(summary, recentReports) :
         /\ b.r = recentReports
         /\ getHealthScore(b.s, b.r).score = 55

----------------------------------------------------------------------------
(* Properties of absent data and of what is rendered *)

HasCollection(report) == report.flagged_markers.t = "obj"

WearableFactors == {"Low step count", "Heart rate outside normal range", "Insufficient sleep"}

SomePositive(s) == Positive(s.steps) \/ Positive(s.heart_rate) \/ Positive(s.sleep)

\* C12: the scorer raises no error on absent data: on an empty summary, on
\* missing metric records, on a missing, null or zero latest, on an empty report
\* list and on reports without a flagged-marker collection it returns, with no
\* factor and no deduction for the absent category.
C12_NoErrorOnAbsentData ==
    /\ ~renderError
    /\ Evaluated =>
         /\ (Absent(summary.steps) /\ Absent(summary.heart_rate) /\ Absent(summary.sleep))
              => /\ \A f \in WearableFactors : ~HasFactor(f)
                 /\ healthScore = getHealthScore(EmptySummary, recentReports)
         /\ healthScore = getHealthScore(summary, SelectSeq(recentReports, HasCollection))
         /\ (\A i \in 1..Len(recentReports) : ~HasCollection(recentReports[i]))
              => healthScore = getHealthScore(summary, <<>>)

C12_Witness ==
    /\ Evaluated
    /\ ~renderError
    /\ summary.steps = Undefined
    /\ summary.heart_rate.t = "obj" /\ summary.heart_rate.latest = Num(0)
    /\ summary.sleep.t = "obj" /\ summary.sleep.latest = Undefined
    /\ recentReports = <<Report(Undefined), Report(Undefined)>>
    /\ healthScore = [score |-> 100, factors |-> <<>>]

\* C13: hasWearableData is truthy exactly when a metric passes the scorer's
\* presence check, that is when some latest is a positive number; the score
\* card is rendered exactly then, so a wearable factor is only ever listed with
\* the score card; the reports panel is rendered exactly when the list of
\* recent reports is not empty.
C13_OnePresencePredicate ==
    Evaluated =>
      /\ Truthy(hasWearableData(summary))
           <=> (Present(summary.steps) \/ Present(summary.heart_rate) \/ Present(summary.sleep))
      /\ Truthy(hasWearableData(summary)) <=> SomePositive(summary)
      /\ (view.scoreCard = "element") <=> SomePositive(summary)
      /\ (\E f \in WearableFactors : HasFactor(f)) => view.scoreCard = "element"
      /\ (view.reportsPanel = "element") <=> (recentReports # <<>>)

C13_Witness ==
    /\ Evaluated
    /\ Absent(summary.steps) /\ summary.steps.t = "obj"
    /\ Absent(summary.heart_rate) /\ summary.heart_rate.t = "obj"
    /\ HasFactor("Insufficient sleep")
    /\ view.scoreCard = "element"
    /\ view.reportsPanel = "nothing"

\* C19: the separate "Areas for improvement" panel is rendered only when one of
\* the recent reports has a flagged marker.
C19_ImprovementOnlyWithAbnormalReport ==
    (Evaluated /\ view.improvement = "element")
      => \E i \in 1..Len(recentReports) : FlaggedCount(recentReports[i]) >= 1

\* C20: an absent metric renders nothing: no tile for it, and no stray text
\* from the chains that guard the score card, the quick stats and the tiles.
C20_AbsentRendersNothing ==
    Evaluated =>
      /\ Absent(summary.steps) => view.stepsTile = "nothing"
      /\ Absent(summary.heart_rate) => view.heartRateTile = "nothing"
      /\ Absent(summary.sleep) => view.sleepTile = "nothing"
      /\ (Absent(summary.steps) /\ Absent(summary.heart_rate) /\ Absent(summary.sleep))
           => (view.scoreCard = "nothing" /\ view.quickStats = "nothing")

----------------------------------------------------------------------------
(* The extractor's claims, checked under ExtractSpec *)

Tokens == rawText.tokens
Span(n) == extraction.spans[n].start .. extraction.spans[n].end
DefinitionOf(name) == CHOOSE d \in 1..Len(MarkerTable) : MarkerTable[d].canonical_name = name

\* A name of some definition stands at i with a numeric literal in its
\* look-ahead window.
NameWithValueAt(i) ==
    \E d \in 1..Len(MarkerTable) : \E a \in MarkerTable[d].aliases :
        /\ AliasAt(Upper(Tokens), i, a)
        /\ FirstNumber(Tokens, i + Len(a), i + Len(a) + LookAhead - 1) # 0

\* C16: a marker's status comes from comparing its value with the low and
\* high bounds of its definition in the table: below low is "low", above
\* high is "high", the bounds themselves and everything between are
\* "normal"; a "Normal Range" annotation in the text changes nothing, and a
\* normal marker carries an empty recommendation.
C16_RangeClassification ==
    Extracted =>
        \A n \in 1..Len(extraction.markers) :
            LET m == extraction.markers[n]
                def == MarkerTable[DefinitionOf(m.name)]
            IN  /\ m.value = Tokens[extraction.spans[n].end].v
                /\ (m.status = "low") <=> (m.value < def.low)
                /\ (m.status = "high") <=> (m.value > def.high)
                /\ (m.status = "normal") <=> (def.low <= m.value /\ m.value <= def.high)
                /\ m.status \in {"low", "normal", "high"}
                /\ (m.status = "normal") => (m.recommendation = "")
                /\ (m.status = "low") => (m.recommendation = def.recommendation_low)
                /\ (m.status = "high") => (m.recommendation = def.recommendation_high)

\* FERRITIN 22 followed by an annotation "Normal Range: 10-30" is low.
C16_Witness ==
    /\ Extracted
    /\ Tokens = <<Word("FERRITIN"), Number(22), RangeNote>>
    /\ extraction.markersFound = 1
    /\ extraction.markers[1].status = "low"

\* C17: spans of two markers never share a token, and an occurrence of
\* "SERUM FERRITIN" with its value yields exactly one marker, the FERRITIN
\* one starting at SERUM; no other marker lies inside that span.
C17_LongestAliasWins ==
    Extracted =>
        /\ \A n, o \in 1..Len(extraction.spans) :
               n # o => Span(n) \cap Span(o) = {}
        /\ \A i \in 1..Len(Tokens) :
               LET j == FirstNumber(Tokens, i + 2, i + 2 + LookAhead - 1)
               IN  (AliasAt(Upper(Tokens), i, <<"SERUM", "FERRITIN">>) /\ j # 0) =>
                       \E n \in 1..Len(extraction.spans) :
                           /\ Span(n) = i..j
                           /\ extraction.markers[n].name = "FERRITIN"
                           /\ \A o \in 1..Len(extraction.spans) :
                                  Span(o) \cap (i..j) # {} => o = n

C17_Witness ==
    /\ Extracted
    /\ Tokens = <<Word("SERUM"), Word("FERRITIN"), Number(22)>>
    /\ extraction.markersFound = 1
    /\ extraction.markers[1].name = "FERRITIN"

\* C18: on a string the extractor always returns a result; markersFound is
\* the number of markers; markers follow each other by start offset; and a
\* text with no name followed by a value gives no markers and a count of 0.
C18_ExtractionNeverFails ==
    (extraction # NoExtraction /\ rawText.t = "str") =>
        /\ extraction.t = "ok"
        /\ extraction.markersFound = Len(extraction.markers)
        /\ Len(extraction.spans) = Len(extraction.markers)
        /\ \A n \in 1..(Len(extraction.spans) - 1) :
               extraction.spans[n].start < extraction.spans[n + 1].start
        /\ (~ \E i \in 1..Len(Tokens) : NameWithValueAt(i)) =>
               (extraction.markers = <<>> /\ extraction.markersFound = 0)

\* A text of plain words has been extracted: no markers, no error.
C18_Witness ==
    /\ extraction.t = "ok"
    /\ Tokens = <<Word("fine"), Word("fine")>>
    /\ extraction.markers = <<>>
    /\ extraction.markersFound = 0

----------------------------------------------------------------------------
(* ManualEntry's claims, checked under ManualSpec *)

HasMarkers(r) == r.t = "obj" /\ r.markers # <<>>

\* C15: a save request is issued only from a state whose results hold at
\* least one marker; handleSaveToReports called without markers sets the
\* error 'No markers detected to save' and sends nothing; and the Save
\* button is offered only while results hold at least one marker.
C15_NoSaveWithoutMarkers ==
    /\ [][ /\ (manualReq'.kind = "save" /\ manualReq.kind # "save")
                => HasMarkers(results)
           /\ (HandleSaveToReports /\ ~HasMarkers(results))
                => (error' = "No markers detected to save" /\ manualReq' = manualReq) ]_vars
    /\ [](SaveButtonOffered => HasMarkers(results))

\* handleSaveToReports was called on a result with zero markers.
C15_Witness ==
    /\ results # Null
    /\ results.markers = <<>>
    /\ error = "No markers detected to save"
    /\ manualReq = NoRequest

----------------------------------------------------------------------------
(* The page's claim, checked under DashSpec *)

\* Nothing is in flight and no handler is waiting: the page changes no more
\* until the user acts.
Quiescent ==
    /\ manualReq = NoRequest
    /\ wearableReq = NoRequest
    /\ uploadReq = NoRequest
    /\ wdFetchPc = "idle"

SomethingStored == serverWearable # EmptySummary \/ serverReports # <<>>

\* C11: once HealthSummary has fetched and data stored through the UI has
\* reached the backend, the score, rating and factors it shows are, as soon
\* as the page is at rest, those of the current wearable summary and report
\* list.
C11_ViewOverCurrentData ==
    (fetchPc = "done" /\ SomethingStored /\ Quiescent) =>
        /\ healthScore = getHealthScore(serverWearable, Slice0(serverReports, 3))
        /\ rating = Rating(getHealthScore(serverWearable, Slice0(serverReports, 3)).score)

----------------------------------------------------------------------------
(* HealthSummary's remaining claims *)

Shown(panel) == panel = "element"

DataPanelShown ==
    \/ Shown(view.scoreCard)
    \/ Shown(view.quickStats)
    \/ Shown(view.improvement)
    \/ Shown(view.reportsPanel)

\* C21: once rendered, the empty state is shown exactly when no metric has a
\* positive latest and the report list is empty; it is never shown together
\* with the score card, the quick stats, the improvement panel or the reports
\* panel, and when it is not shown one of those is.
C21_EmptyStateExact ==
    Evaluated =>
      /\ Shown(view.emptyState) <=> (~SomePositive(summary) /\ recentReports = <<>>)
      /\ Shown(view.emptyState) => ~DataPanelShown
      /\ ~Shown(view.emptyState) => DataPanelShown

\* Metric records are there but every latest is zero or missing, and there
\* is no report: the empty state is shown.
C21_Witness ==
    /\ Evaluated
    /\ summary.steps.t = "obj"
    /\ summary.heart_rate.t = "obj"
    /\ summary.sleep.t = "obj"
    /\ recentReports = <<>>
    /\ Shown(view.emptyState)

----------------------------------------------------------------------------
(* Chat: sending a message *)

\* The POST of req has failed in this step: the request is gone and the
\* backend stored nothing.
PostFailed(req) == req \notin chatSendReqs' /\ serverMessages' = serverMessages

ListWithout(list, id) == SelectSeq(list, LAMBDA msg : msg.id # id)

Assistants(list) == Len(SelectSeq(list, LAMBDA msg : msg.role = "assistant"))

\* C23, as stated: when the POST of a message fails, the displayed list is the
\* list displayed before sendMessage was invoked, the current session is
\* unchanged, no assistant message is added and isLoading is false again.
C23_ListAsBeforeSend ==
    [][\A req \in chatSendReqs : PostFailed(req) =>
          /\ messages' = req.before
          /\ chatCurrent' = chatCurrent
          /\ Assistants(messages') = Assistants(messages)
          /\ chatIsLoading' = FALSE]_vars

\* C23, amended: when the POST of a message fails, the optimistic user
\* message is removed from the displayed list and every other message is kept
\* in place; the list is the list displayed before sendMessage was invoked
\* whenever it was not replaced by a session load or a session creation while
\* the request was in flight; the current session is unchanged, no assistant
\* message is added and isLoading is false again.
C23_Rollback ==
    [][\A req \in chatSendReqs : PostFailed(req) =>
          /\ messages' = ListWithout(messages, req.userMessage.id)
          /\ \A i \in 1..Len(messages') : messages'[i] # req.userMessage
          /\ (messages = Append(req.before, req.userMessage)) => (messages' = req.before)
          /\ chatCurrent' = chatCurrent
          /\ Assistants(messages') = Assistants(messages)
          /\ chatIsLoading' = FALSE]_vars

\* The last send failed and was rolled back, in a session with messages.
C23_Witness ==
    /\ clock > 0
    /\ chatSendReqs = {}
    /\ \A id \in SessionIds : \A i \in 1..Len(serverMessages[id]) :
          serverMessages[id][i].id # <<"u", clock>>
    /\ chatCurrent # Null
    /\ messages # <<>>
    /\ messages = chatCurrent.messages
    /\ ~chatIsLoading

\* C24: every displayed message, and every message of the current session,
\* belongs to the session that is current, whatever was selected or created
\* while a send was in flight; and when no request is in flight the displayed
\* list is the current session's list.
NoChatRequest ==
    /\ chatSessionsPc = "done"
    /\ lastSessionReq = NoRequest
    /\ chatLoadReqs = {}
    /\ ~chatCreateReq
    /\ chatSendReqs = {}

C24_MessagesOfCurrentSession ==
    chatCurrent # Null =>
       /\ \A i \in 1..Len(messages) : messages[i].sid = chatCurrent.id
       /\ \A i \in 1..Len(chatCurrent.messages) : chatCurrent.messages[i].sid = chatCurrent.id
       /\ NoChatRequest => messages = chatCurrent.messages

\* The POST of req has succeeded in this step.
PostSucceeded(req) == req \notin chatSendReqs' /\ serverMessages' # serverMessages

----------------------------------------------------------------------------
(* DashboardPage: deleting a session *)

Listed(list, id) == \E i \in 1..Len(list) : list[i] = id

\* The DELETE of req has succeeded in this step.
DeleteSucceeded(req) == req \notin pageDeleteReqs' /\ serverSessions' # serverSessions

\* C26: after a successful deleteSession(id) the session is absent from
\* sessions and currentSession does not refer to it; currentSession is always
\* null or a member of sessions, also when a load of the same session
\* completes or starts while the delete is in flight; a failed DELETE leaves
\* sessions and currentSession unchanged.
C26_CurrentSessionListed ==
    [][/\ currentSession' # Null => Listed(sessions', currentSession'.id)
       /\ \A req \in pageDeleteReqs : DeleteSucceeded(req) =>
             /\ ~Listed(sessions', req.sessionId)
             /\ IdOf(currentSession') # Num(req.sessionId)
       /\ \A req \in pageDeleteReqs :
             (req \notin pageDeleteReqs' /\ serverSessions' = serverSessions) =>
                UNCHANGED <<sessions, currentSession>>]_vars

\* The session was deleted at the backend.
Deleted(id) == id < nextSessionId /\ ~Exists(id)

NoPageRequest ==
    /\ ~loadingSessions
    /\ pageLoadReqs = {}
    /\ pageDeleteReqs = {}
    /\ ~pageCreateReq

\* C27: once a session was deleted from the sidebar, and no request is in
\* flight, Chat's session list and Chat's current session do not contain it;
\* and no message POST is issued for a deleted session.
C27_DeletedEverywhere ==
    [][/\ (NoPageRequest' /\ NoChatRequest') =>
             \A id \in SessionIds : Deleted(id)' =>
                /\ ~Listed(chatSessions', id)
                /\ IdOf(chatCurrent') # Num(id)
       /\ \A req \in chatSendReqs' \ chatSendReqs : ~Deleted(req.sessionId)]_vars

----------------------------------------------------------------------------
(* ManualEntry: what is saved *)

\* C28: whenever a save request is issued, its text_content is the text
\* that was sent in the most recent successful handleTestText request, the
\* text the displayed markers were extracted from (the test sends the text
\* trimmed, so the two are compared trimmed).
C28_SavedTextIsTestedText ==
    manualReq.kind = "save" => Trim(manualReq.text) = results.extractedText

====
